---------------------------- MODULE Spec2Model ----------------------------
(***************************************************************************)
(* Model of the myfamapp grouping / mapping / selection pipeline:          *)
(*   src/services/grouping.ts   (filter, map, group, disambiguate)         *)
(*   src/models/index.ts        (type guards)                              *)
(*   src/services/data.ts       (fetchSharedItems)                         *)
(*   src/services/auth.ts       (session, token acquisition)               *)
(*   src/state/selection.tsx    (selectionReducer, loadData, refreshData)  *)
(*   pages/index.tsx            (sign-in / sign-out / auth polling)        *)
(*                                                                         *)
(* A JavaScript string is a sequence of pieces.  The strings the code      *)
(* inspects (MIME types, display names, the fields of the arbitrary item   *)
(* lists) have one character a piece, so startsWith, concatenation and     *)
(* comparison are computed.  The canned strings that are only tested for   *)
(* truthiness, compared for equality and passed on (ids, e-mail addresses, *)
(* file names, dates, URLs) are written as one piece.  Error messages are  *)
(* only tested for truthiness and passed on, they are TLA+ strings.        *)
(***************************************************************************)
EXTENDS Integers, Sequences, FiniteSets, TLC

(***************************************************************************)
(* Bounds                                                                  *)
(***************************************************************************)
MaxLoads == 2
MaxItems == 2
MaxCall == 3

(***************************************************************************)
(* JavaScript values                                                       *)
(***************************************************************************)
Undef == <<"undefined">>
Null == <<"null">>
NoError == "<null>"

\* JavaScript truthiness of a string | undefined | null value
Truthy(v) == v # Undef /\ v # Null /\ v # <<>>

\* truthiness of an error message (string | null)
TruthyMsg(m) == m # NoError /\ m # ""

\* a || b
OrElse(a, b) == IF Truthy(a) THEN a ELSE b

ImagePrefix == <<"i", "m", "a", "g", "e", "/">>

\* String.prototype.startsWith
StartsWith(s, prefix) ==
    /\ Len(s) >= Len(prefix)
    /\ \A i \in 1..Len(prefix) : s[i] = prefix[i]

(***************************************************************************)
(* src/models/index.ts : type guards                                       *)
(***************************************************************************)
isImageMimeTypeAnywhere(mimeType) ==
    \E k \in 0..Len(mimeType) :
        /\ k + Len(ImagePrefix) <= Len(mimeType)
        /\ \A i \in 1..Len(ImagePrefix) : mimeType[k + i] = ImagePrefix[i]

isImageMimeType(mimeType) == StartsWith(mimeType, ImagePrefix)

hasValidSharer(item) ==
    /\ Truthy(item.displayName)
    /\ (Truthy(item.userId) \/ Truthy(item.email))

hasValidPreviewAnyEntry(item) ==
    /\ item.hasThumbnails
    /\ Len(item.thumbnails) > 0

hasValidPreview(item) ==
    /\ item.hasThumbnails
    /\ Len(item.thumbnails) > 0
    /\ Truthy(item.thumbnails[1])

(***************************************************************************)
(* Raw items (GraphDriveItem).  A field the JSON may omit holds Undef:     *)
(*   mimeType     file?.mimeType                                           *)
(*   displayName  sharedBy?.user?.displayName                              *)
(*   userId       sharedBy?.user?.id                                       *)
(*   email        sharedBy?.user?.email                                    *)
(*   sharedDateTime  shared?.sharedDateTime                                *)
(*   hasThumbnails / thumbnails   thumbnails?: each entry is its           *)
(*                                medium?.url                              *)
(***************************************************************************)
RawItem(id, name, mime, dn, uid, email) ==
    [id |-> id, name |-> name, mimeType |-> mime, displayName |-> dn,
     userId |-> uid, email |-> email, sharedDateTime |-> Undef,
     hasThumbnails |-> FALSE, thumbnails |-> <<>>, webUrl |-> Undef]

NullImage ==
    [id |-> Null, name |-> Null, mimeType |-> Null,
     sharedBy |-> [displayName |-> Null, identifier |-> Null],
     preview |-> [thumbnailUrl |-> Null], dateShared |-> Null,
     webUrl |-> Null]

\* new Date().toISOString()
Now == <<"n", "o", "w">>

(***************************************************************************)
(* src/services/grouping.ts                                                *)
(***************************************************************************)
keepsImage(item) == Truthy(item.mimeType) /\ isImageMimeType(item.mimeType)

RECURSIVE filterImagesByMime(_)
filterImagesByMime(items) ==
    IF items = <<>> THEN <<>>
    ELSE IF keepsImage(Head(items))
         THEN <<Head(items)>> \o filterImagesByMime(Tail(items))
         ELSE filterImagesByMime(Tail(items))

\* the account id preferred to the email: sharer.id || sharer.email
mapToSharedImageIdFirst(item) ==
    IF ~Truthy(item.name) \/ ~Truthy(item.mimeType) \/ ~hasValidSharer(item)
    THEN NullImage
    ELSE [id |-> item.id,
          name |-> item.name,
          mimeType |-> item.mimeType,
          sharedBy |-> [displayName |-> item.displayName,
                        identifier |-> OrElse(item.userId, item.email)],
          preview |-> [thumbnailUrl |->
                          IF hasValidPreview(item) THEN item.thumbnails[1]
                          ELSE Null],
          dateShared |-> OrElse(item.sharedDateTime, Now),
          webUrl |-> item.webUrl]

mapToSharedImage(item) ==
    IF ~Truthy(item.name) \/ ~Truthy(item.mimeType) \/ ~hasValidSharer(item)
    THEN NullImage
    ELSE [id |-> item.id,
          name |-> item.name,
          mimeType |-> item.mimeType,
          sharedBy |-> [displayName |-> item.displayName,
                        identifier |-> OrElse(item.email, item.userId)],
          preview |-> [thumbnailUrl |->
                          IF hasValidPreview(item) THEN item.thumbnails[1]
                          ELSE Null],
          dateShared |-> OrElse(item.sharedDateTime, Now),
          webUrl |-> item.webUrl]

(***************************************************************************)
(* String.prototype.localeCompare: collation with a primary level (letters *)
(* compared without case, punctuation before digits before letters) and a  *)
(* case level that decides only between primary-equal strings (lower case  *)
(* first).                                                                 *)
(***************************************************************************)
CollationOrder ==
    <<" ", "(", ")", "@", "/", "0", "1", "2", "3", "4", "5", "6", "7", "8",
      "9", "a", "b", "c", "d", "e", "f", "g", "h", "i", "j", "k", "l", "m",
      "n", "o", "p", "q", "r", "s", "t", "u", "v", "w", "x", "y", "z">>
UpperCase ==
    <<"A", "B", "C", "D", "E", "F", "G", "H", "I", "J", "K", "L", "M", "N",
      "O", "P", "Q", "R", "S", "T", "U", "V", "W", "X", "Y", "Z">>
LowerCase ==
    <<"a", "b", "c", "d", "e", "f", "g", "h", "i", "j", "k", "l", "m", "n",
      "o", "p", "q", "r", "s", "t", "u", "v", "w", "x", "y", "z">>

IsUpper(c) == \E i \in 1..Len(UpperCase) : UpperCase[i] = c
Fold(c) ==
    IF IsUpper(c)
    THEN LowerCase[CHOOSE i \in 1..Len(UpperCase) : UpperCase[i] = c]
    ELSE c
PrimaryRank(c) ==
    CHOOSE i \in 1..Len(CollationOrder) : CollationOrder[i] = Fold(c)
CaseRank(c) == IF IsUpper(c) THEN 1 ELSE 0

PrimaryKey(s) == [i \in 1..Len(s) |-> PrimaryRank(s[i])]
CaseKey(s) == [i \in 1..Len(s) |-> CaseRank(s[i])]

\* lexicographic comparison of two keys: -1, 0 or 1
RECURSIVE CompareKeys(_, _)
CompareKeys(a, b) ==
    IF a = <<>> /\ b = <<>> THEN 0
    ELSE IF a = <<>> THEN -1
    ELSE IF b = <<>> THEN 1
    ELSE IF Head(a) < Head(b) THEN -1
    ELSE IF Head(a) > Head(b) THEN 1
    ELSE CompareKeys(Tail(a), Tail(b))

localeCompare(a, b) ==
    LET primary == CompareKeys(PrimaryKey(a), PrimaryKey(b))
    IN  IF primary # 0 THEN primary
        ELSE CompareKeys(CaseKey(a), CaseKey(b))

\* the distinct sharer identifiers of images, in order of first appearance
\* (insertion order of the Map)
RECURSIVE groupKeys(_)
groupKeys(images) ==
    IF images = <<>> THEN <<>>
    ELSE LET rest == groupKeys(SubSeq(images, 1, Len(images) - 1))
             key == images[Len(images)].sharedBy.identifier
         IN  IF \E i \in 1..Len(rest) : rest[i] = key THEN rest
             ELSE Append(rest, key)

\* Array.prototype.sort with the displayName comparator (a stable sort):
\* g goes behind every element that does not compare greater than it
RECURSIVE sortedInsert(_, _)
sortedInsert(sorted, g) ==
    IF sorted = <<>> THEN <<g>>
    ELSE IF localeCompare(Head(sorted).person.displayName,
                          g.person.displayName) <= 0
         THEN <<Head(sorted)>> \o sortedInsert(Tail(sorted), g)
         ELSE <<g>> \o sorted

\* the groupings left in the insertion order of the Map
insertionOrder(groupings) == groupings

RECURSIVE sortByDisplayName(_)
sortByDisplayName(groupings) ==
    IF groupings = <<>> THEN <<>>
    ELSE sortedInsert(
             sortByDisplayName(SubSeq(groupings, 1, Len(groupings) - 1)),
             groupings[Len(groupings)])

\* as groupBySharer, the representative being the last image of a group
groupBySharerLastImage(images) ==
    LET keys == groupKeys(images)
        groupImages(identifier) ==
            SelectSeq(images, LAMBDA im : im.sharedBy.identifier = identifier)
        groupings ==
            [k \in 1..Len(keys) |->
                [person |-> [identifier |-> keys[k],
                             displayName |->
                                 groupImages(keys[k])[Len(groupImages(keys[k]))]
                                     .sharedBy.displayName,
                             imageCount |-> Len(groupImages(keys[k]))],
                 images |-> groupImages(keys[k])]]
    IN  sortByDisplayName(groupings)

groupBySharer(images) ==
    LET keys == groupKeys(images)
        groupImages(identifier) ==
            SelectSeq(images, LAMBDA im : im.sharedBy.identifier = identifier)
        groupings ==
            [k \in 1..Len(keys) |->
                [person |-> [identifier |-> keys[k],
                             displayName |->
                                 groupImages(keys[k])[1].sharedBy.displayName,
                             imageCount |-> Len(groupImages(keys[k]))],
                 images |-> groupImages(keys[k])]]
    IN  sortByDisplayName(groupings)

\* the suffix without the identifier in it
withEmptySuffix(person) == person.displayName \o <<" ", "(", ")">>

\* `${person.displayName} (${person.identifier})`
withIdentifier(person) ==
    person.displayName \o <<" ", "(">> \o person.identifier \o <<")">>

\* the suffix added to every grouping, duplicate name or not
disambiguateEveryName(groupings) ==
    [i \in 1..Len(groupings) |->
        [groupings[i] EXCEPT
            !.person.displayName = withIdentifier(groupings[i].person)]]

disambiguateDisplayNames(groupings) ==
    LET nameCount(name) ==
            Cardinality({i \in 1..Len(groupings) :
                            groupings[i].person.displayName = name})
    IN  [i \in 1..Len(groupings) |->
            IF nameCount(groupings[i].person.displayName) > 1
            THEN [groupings[i] EXCEPT
                     !.person.displayName = withIdentifier(groupings[i].person)]
            ELSE groupings[i]]

\* the items of imageItems that map, mapped, in order
RECURSIVE mapAll(_)
mapAll(imageItems) ==
    IF imageItems = <<>> THEN <<>>
    ELSE LET mapped == mapToSharedImage(Head(imageItems))
         IN  IF mapped # NullImage
             THEN <<mapped>> \o mapAll(Tail(imageItems))
             ELSE mapAll(Tail(imageItems))

\* no entry for any item
noErrors(imageItems) == <<>>

\* one entry (the item id) per item of imageItems that does not map
RECURSIVE mapErrors(_)
mapErrors(imageItems) ==
    IF imageItems = <<>> THEN <<>>
    ELSE IF mapToSharedImage(Head(imageItems)) = NullImage
         THEN <<Head(imageItems).id>> \o mapErrors(Tail(imageItems))
         ELSE mapErrors(Tail(imageItems))

\* the catch branch is not modelled: no step of the pipeline throws on
\* items of the GraphDriveItem shape
processGraphItems(rawItems) ==
    LET imageItems == filterImagesByMime(rawItems)
        sharedImages == mapAll(imageItems)
        rawGroupings == groupBySharer(sharedImages)
        groupings == disambiguateDisplayNames(rawGroupings)
    IN  [groupings |-> groupings,
         allPeople |-> [i \in 1..Len(groupings) |-> groupings[i].person],
         totalImages |-> Len(sharedImages),
         errors |-> mapErrors(imageItems)]


(***************************************************************************)
(* State                                                                   *)
(*   state    the SelectionState held by useReducer                        *)
(*   stored   localStorage 'msal.account': "none", or the kind of          *)
(*            accessToken the stored account carries                       *)
(*            ("noToken", "mock", "real")                                  *)
(*   session  the Session the page keeps with useState                     *)
(*   mounted  the mount effects have run                                   *)
(*   loads    the loadData calls issued so far, by issue number            *)
(*   issued   number of loadData calls issued                              *)
(*   hist     history: the image list of the last SET_DATA payload and     *)
(*            whether a fetch that succeeded has been applied              *)
(*   last     history: the operation performed last; for a load that was   *)
(*            applied, whether its fetch had failed and how many times it  *)
(*            set error                                                    *)
(*   everAuth history: an account has been stored at some time             *)
(*   timer    history: the step just taken was the one-second interval of  *)
(*            onAuthChange running its callback                            *)
(*   pipe     a run of the pure pipeline over an arbitrary item list       *)
(*   call     a direct call of one exported function of grouping.ts, as    *)
(*            the contract tests make them                                 *)
(***************************************************************************)
VARIABLES state, stored, session, mounted, loads, issued, hist, last,
          everAuth, timer, pipe, call

vars ==
    <<state, stored, session, mounted, loads, issued, hist, last, everAuth,
      timer, pipe, call>>
engineVars ==
    <<state, stored, session, mounted, loads, issued, hist, last, everAuth,
      timer>>

NullP == [identifier |-> Null, displayName |-> Null, imageCount |-> 0]

initialState ==
    [selectedPerson |-> NullP,
     displayImages |-> <<>>,
     availablePeople |-> <<>>,
     isLoading |-> FALSE,
     error |-> NoError]

(***************************************************************************)
(* src/state/selection.tsx : selectionReducer, one operator per case       *)
(***************************************************************************)
SET_LOADING(s, payload) == [s EXCEPT !.isLoading = payload]

SET_ERROR(s, payload) == [s EXCEPT !.error = payload, !.isLoading = FALSE]

filterBySharer(images, person) ==
    SelectSeq(images,
              LAMBDA img : img.sharedBy.identifier = person.identifier)

SET_DATA_Unfiltered(s, people, images) ==
    [s EXCEPT !.availablePeople = people,
              !.displayImages = images,
              !.isLoading = FALSE,
              !.error = NoError]

SET_DATA(s, people, images) ==
    [s EXCEPT !.availablePeople = people,
              !.displayImages =
                  IF s.selectedPerson # NullP
                  THEN filterBySharer(images, s.selectedPerson)
                  ELSE images,
              !.isLoading = FALSE,
              !.error = NoError]

getAllImagesFromPeople(people) == <<>>

\* a SELECT_PERSON that reloads: it also raises isLoading and clears the error
SELECT_PERSON_Reloading(s, selectedPerson) ==
    [s EXCEPT !.selectedPerson = selectedPerson,
              !.displayImages = <<>>,
              !.isLoading = TRUE,
              !.error = NoError]

SELECT_PERSON(s, selectedPerson) ==
    LET allImages == getAllImagesFromPeople(s.availablePeople)
    IN  [s EXCEPT !.selectedPerson = selectedPerson,
                  !.displayImages =
                      IF selectedPerson # NullP
                      THEN filterBySharer(allImages, selectedPerson)
                      ELSE allImages]

REFRESH_DATA(s) == [s EXCEPT !.isLoading = TRUE, !.error = NoError]

(***************************************************************************)
(* src/services/auth.ts                                                    *)
(***************************************************************************)
TokenKinds == {"mock", "real", "empty"}

\* getCurrentSession, account being the stored account: authenticated iff
\* there is one
getCurrentSession(account) ==
    [isAuthenticated |-> account # "none", error |-> NoError]

\* isTokenValid: an account is stored and it carries an access token
isTokenValid(account) == account # "none" /\ account # "noToken"

(***************************************************************************)
(* src/services/data.ts : fetchSharedItems                                 *)
(***************************************************************************)
AuthRequiredMsg == "Authentication required - please sign in"
NoTokenMsg == "Unable to get authentication token"
AuthExpiredMsg == "Authentication expired - please sign in again"
NetworkMsg ==
    "Network connection problem - please check your internet connection"
FetchFallbackMsg == "Failed to load shared items"
GraphErrorMsg(status) == "Graph API error: " \o status

\* what a rejected await can throw: an Error (a TypeError or not) with its
\* message, or a value that is not an Error
Thrown ==
    { [isError |-> TRUE, isTypeError |-> TRUE, message |-> "Failed to fetch"],
      [isError |-> TRUE, isTypeError |-> FALSE,
       message |-> "The operation timed out."],
      [isError |-> TRUE, isTypeError |-> FALSE, message |-> ""],
      [isError |-> FALSE, isTypeError |-> FALSE, message |-> "rejected"] }

\* error.message.includes('fetch'), over the messages of Thrown
IncludesFetch(message) == message \in {"Failed to fetch"}

NoResult == [items |-> <<>>, error |-> NoError]
Failure(message) == [items |-> <<>>, error |-> message]
Success(items) == [items |-> items, error |-> NoError]

\* the catch block of fetchSharedItems
catchResult(e) ==
    IF e.isTypeError /\ IncludesFetch(e.message) THEN Failure(NetworkMsg)
    ELSE Failure(IF e.isError THEN e.message ELSE FetchFallbackMsg)

idleLoad == [pc |-> "idle", result |-> NoResult, failed |-> FALSE]

AtPc(pc) == [idleLoad EXCEPT !.pc = pc]

\* fetchSharedItems returns result; failed records whether the fetch failed
Resolved(result, failed) ==
    [idleLoad EXCEPT !.pc = "resolved", !.result = result,
                     !.failed = failed]

\* lines 32-45: the token getToken returned decides the next step
afterToken(token) ==
    IF token = "empty" THEN Resolved(Failure(NoTokenMsg), TRUE)
    ELSE IF token = "mock" THEN AtPc("mock")
    ELSE AtPc("request1")

\* lines 22-31 with getToken up to its first pending await: the cached
\* mock token is returned at once, any other token is acquired silently
fetchStart(account) ==
    IF ~isTokenValid(account) THEN Resolved(Failure(AuthRequiredMsg), TRUE)
    ELSE IF account = "mock" THEN afterToken("mock")
    ELSE AtPc("silent")

(***************************************************************************)
(* src/services/data.ts : getMockSharedItems (the canned items; webUrl is  *)
(* carried through unread and left out)                                    *)
(***************************************************************************)
ImageJpeg ==
    <<"i", "m", "a", "g", "e", "/", "j", "p", "e", "g">>
AliceName ==
    <<"A", "l", "i", "c", "e", " ", "J", "o", "h", "n", "s", "o", "n">>
AliceId == <<"alice-id-123">>
AliceEmail == <<"alice.johnson@example.com">>
BobName ==
    <<"B", "o", "b", " ", "S", "m", "i", "t", "h">>
BobId == <<"bob-id-456">>
BobEmail == <<"bob.smith@example.com">>
CarolName ==
    <<"C", "a", "r", "o", "l", " ", "W", "i", "l", "l", "i", "a", "m", "s">>
CarolId == <<"carol-id-789">>
CarolEmail == <<"carol.williams@example.com">>
MockId1 == <<"mock-item-1">>
MockName1 == <<"family-vacation-beach.jpg">>
MockDate1 == <<"2025-09-10T14:30:00Z">>
MockThumb1 == <<"https://picsum.photos/300/200?random=1">>
MockItem1 ==
    [RawItem(MockId1, MockName1, ImageJpeg, AliceName, AliceId, AliceEmail)
     EXCEPT !.sharedDateTime = MockDate1,
            !.hasThumbnails = TRUE,
            !.thumbnails = <<MockThumb1>>]
MockId2 == <<"mock-item-2">>
MockName2 == <<"birthday-party-kids.jpg">>
MockDate2 == <<"2025-09-12T16:45:00Z">>
MockThumb2 == <<"https://picsum.photos/300/200?random=2">>
MockItem2 ==
    [RawItem(MockId2, MockName2, ImageJpeg, BobName, BobId, BobEmail)
     EXCEPT !.sharedDateTime = MockDate2,
            !.hasThumbnails = TRUE,
            !.thumbnails = <<MockThumb2>>]
MockId3 == <<"mock-item-3">>
MockName3 == <<"hiking-trail-mountains.jpg">>
MockDate3 == <<"2025-09-11T09:15:00Z">>
MockThumb3 == <<"https://picsum.photos/300/200?random=3">>
MockItem3 ==
    [RawItem(MockId3, MockName3, ImageJpeg, AliceName, AliceId, AliceEmail)
     EXCEPT !.sharedDateTime = MockDate3,
            !.hasThumbnails = TRUE,
            !.thumbnails = <<MockThumb3>>]
MockId4 == <<"mock-item-4">>
MockName4 == <<"wedding-ceremony.jpg">>
MockDate4 == <<"2025-09-08T18:20:00Z">>
MockThumb4 == <<"https://picsum.photos/300/200?random=4">>
MockItem4 ==
    [RawItem(MockId4, MockName4, ImageJpeg, CarolName, CarolId, CarolEmail)
     EXCEPT !.sharedDateTime = MockDate4,
            !.hasThumbnails = TRUE,
            !.thumbnails = <<MockThumb4>>]
MockId5 == <<"mock-item-5">>
MockName5 == <<"office-team-lunch.jpg">>
MockDate5 == <<"2025-09-14T12:30:00Z">>
MockThumb5 == <<"https://picsum.photos/300/200?random=5">>
MockItem5 ==
    [RawItem(MockId5, MockName5, ImageJpeg, BobName, BobId, BobEmail)
     EXCEPT !.sharedDateTime = MockDate5,
            !.hasThumbnails = TRUE,
            !.thumbnails = <<MockThumb5>>]
MockId6 == <<"mock-item-6">>
MockName6 == <<"garden-flowers-spring.jpg">>
MockDate6 == <<"2025-09-13T08:45:00Z">>
MockItem6 ==
    [RawItem(MockId6, MockName6, ImageJpeg, AliceName, AliceId, AliceEmail)
     EXCEPT !.sharedDateTime = MockDate6,
            !.hasThumbnails = TRUE,
            !.thumbnails = <<>>]
mockItems ==
    <<MockItem1, MockItem2, MockItem3, MockItem4, MockItem5, MockItem6>>

(***************************************************************************)
(* Items a Graph response can carry                                        *)
(***************************************************************************)
ImagePng == <<"i", "m", "a", "g", "e", "/", "p", "n", "g">>
AppPdf == <<"a", "p", "p", "/", "p", "d", "f">>
AnnName == <<"A", "n", "n">>
AnnId == <<"u1">>
AnnEmail == <<"a@x">>
BoName == <<"B", "o">>
BoId == <<"u2">>

\* Ann shares two images and a document, Bo one image and one item without
\* a name
DataA ==
    << RawItem(<<"1">>, <<"a">>, ImagePng, AnnName, AnnId, AnnEmail),
       RawItem(<<"2">>, <<"b">>, AppPdf, AnnName, AnnId, AnnEmail),
       RawItem(<<"3">>, <<"c">>, ImagePng, BoName, BoId, Undef),
       RawItem(<<"4">>, Undef, ImagePng, BoName, BoId, Undef),
       RawItem(<<"5">>, <<"e">>, ImagePng, AnnName, AnnId, AnnEmail) >>

\* later Ann has withdrawn her items and Bo has shared one more
DataB ==
    << RawItem(<<"3">>, <<"c">>, ImagePng, BoName, BoId, Undef),
       RawItem(<<"6">>, <<"f">>, ImagePng, BoName, BoId, Undef) >>

DataSets == {DataA, DataB, <<>>}

(***************************************************************************)
(* src/state/selection.tsx : loadData and refreshData.  A step of the      *)
(* model is one task of the event loop: when fetchSharedItems returns,     *)
(* loadData resumes in the same task, so the dispatches after the await    *)
(* belong to the step that resolves the fetch.  Its catch block is not     *)
(* reached: fetchSharedItems and processGraphItems catch what they throw.  *)
(***************************************************************************)
Note(op) == last' = [op |-> op, failed |-> FALSE, errorSets |-> 0]

\* history only: the result of a finished load is kept while it is the load
\* issued last
doneLoad(result) == [pc |-> "done", result |-> result, failed |-> FALSE]

forget(load) == IF load.pc = "done" THEN doneLoad(NoResult) ELSE load

\* allImages.push(...grouping.images) over the groupings
RECURSIVE flatten(_)
flatten(groupings) ==
    IF groupings = <<>> THEN <<>>
    ELSE Head(groupings).images \o flatten(Tail(groupings))

\* the item lists fetchSharedItems returns
Returned == DataSets \cup {mockItems, <<>>}

\* line 131: processGraphItems(result.items), tabulated over Returned
processedItems == [items \in Returned |-> processGraphItems(items)]

\* line 136: the images of all groupings
allImagesOf ==
    [items \in Returned |-> flatten(processedItems[items].groupings)]

\* lines 124-148: loadData after the await, in state s
loadDataResumes(s, result) ==
    IF TruthyMsg(result.error) THEN SET_ERROR(s, result.error)
    ELSE SET_DATA(s, processedItems[result.items].allPeople,
                  allImagesOf[result.items])

\* the load with issue number i, running in state s, reaches to: either the
\* next pending await of fetchSharedItems or its return
Settle(i, s, to) ==
    LET resolved == to.pc = "resolved"
        isData == resolved /\ ~TruthyMsg(to.result.error)
        isNew == i > issued
    IN  /\ state' = IF resolved THEN loadDataResumes(s, to.result) ELSE s
        /\ loads' = [j \in 1..MaxLoads |->
                        IF j # i
                        THEN IF isNew THEN forget(loads[j]) ELSE loads[j]
                        ELSE IF ~resolved THEN to
                        ELSE doneLoad(IF isNew \/ i = issued THEN to.result
                                      ELSE NoResult)]
        /\ hist' = IF isData
                   THEN [allImages |-> allImagesOf[to.result.items],
                         loaded |-> hist.loaded \/ ~to.failed]
                   ELSE hist
        /\ last' = [op |-> IF ~resolved THEN "other"
                           ELSE IF isData THEN "applyData" ELSE "applyError",
                    failed |-> resolved /\ to.failed,
                    errorSets |-> IF resolved /\ ~isData THEN 1 ELSE 0]

\* loadData, called in state s with account stored: SET_LOADING, then
\* fetchSharedItems runs up to its first pending await
loadData(s, account) ==
    /\ issued < MaxLoads
    /\ issued' = issued + 1
    /\ Settle(issued + 1, SET_LOADING(s, TRUE), fetchStart(account))

refreshData(account) == loadData(REFRESH_DATA(state), account)

\* the mount effects: the page reads the session and subscribes, the
\* provider calls loadData
Mount ==
    /\ ~mounted
    /\ mounted' = TRUE
    /\ session' = getCurrentSession(stored)
    /\ loadData(state, stored)
    /\ UNCHANGED <<stored, everAuth, pipe, call>>
    /\ timer' = FALSE

(***************************************************************************)
(* pages/index.tsx                                                         *)
(***************************************************************************)
\* the onAuthChange callback, run with the session read from storage
authChanged(account) ==
    /\ session' = getCurrentSession(account)
    /\ IF session'.isAuthenticated
       THEN refreshData(account)
       ELSE /\ Note("other")
            /\ UNCHANGED <<state, loads, issued, hist>>

\* the one-second interval of onAuthChange
AuthPoll ==
    /\ mounted
    /\ authChanged(stored)
    /\ UNCHANGED <<stored, mounted, everAuth, pipe, call>>
    /\ timer' = TRUE

\* another tab rewrites localStorage; the storage listener runs the callback
StorageChange(account) ==
    /\ mounted
    /\ account # stored
    /\ stored' = account
    /\ authChanged(account)
    /\ everAuth' = (everAuth \/ account # "none")
    /\ UNCHANGED <<mounted, pipe, call>>
    /\ timer' = FALSE

\* handleSignIn, loginPopup succeeding: it stores the mock account
HandleSignInOk ==
    /\ mounted
    /\ ~session.isAuthenticated
    /\ stored' = "mock"
    /\ session' = [isAuthenticated |-> TRUE, error |-> NoError]
    /\ refreshData("mock")
    /\ everAuth' = TRUE
    /\ UNCHANGED <<mounted, pipe, call>>
    /\ timer' = FALSE

\* handleSignIn, loginPopup rejecting
HandleSignInFails ==
    /\ mounted
    /\ ~session.isAuthenticated
    /\ session' = [isAuthenticated |-> FALSE, error |-> "Sign-in failed"]
    /\ Note("other")
    /\ UNCHANGED <<state, stored, mounted, loads, issued, hist, everAuth,
                   pipe, call>>
    /\ timer' = FALSE

\* handleSignOut: logout removes the stored account
HandleSignOut ==
    /\ mounted
    /\ session.isAuthenticated
    /\ stored' = "none"
    /\ session' = [isAuthenticated |-> FALSE, error |-> NoError]
    /\ Note("signOut")
    /\ UNCHANGED <<state, mounted, loads, issued, hist, everAuth, pipe, call>>
    /\ timer' = FALSE

\* handleRefresh: the refresh button (disabled while loading) or the retry
\* button of the error banner
HandleRefresh ==
    /\ mounted
    /\ session.isAuthenticated
    /\ ~state.isLoading \/ TruthyMsg(state.error)
    /\ refreshData(stored)
    /\ UNCHANGED <<stored, session, mounted, everAuth, pipe, call>>
    /\ timer' = FALSE

(***************************************************************************)
(* src/components/PeoplePanel.tsx : the only callers of selectPerson       *)
(***************************************************************************)
PanelShowsPeople ==
    /\ mounted
    /\ session.isAuthenticated
    /\ ~state.isLoading
    /\ Len(state.availablePeople) > 0

\* handlePersonClick on the k-th entry: toggles the selection
HandlePersonClick(k) ==
    /\ PanelShowsPeople
    /\ k \in 1..Len(state.availablePeople)
    /\ LET person == state.availablePeople[k]
           newSelection ==
               IF state.selectedPerson.identifier = person.identifier
               THEN NullP ELSE person
       IN  state' = SELECT_PERSON(state, newSelection)
    /\ Note("select")
    /\ UNCHANGED <<stored, session, mounted, loads, issued, hist, everAuth,
                   pipe, call>>
    /\ timer' = FALSE

HandleShowAllClick ==
    /\ PanelShowsPeople
    /\ state' = SELECT_PERSON(state, NullP)
    /\ Note("select")
    /\ UNCHANGED <<stored, session, mounted, loads, issued, hist, everAuth,
                   pipe, call>>
    /\ timer' = FALSE

(***************************************************************************)
(* src/services/data.ts : fetchSharedItems, one action per await that the  *)
(* environment answers; i is the issue number of the loadData call         *)
(***************************************************************************)
Step(i, from, to) ==
    /\ i \in 1..MaxLoads
    /\ loads[i].pc = from
    /\ Settle(i, state, to)
    /\ UNCHANGED <<stored, session, mounted, issued, everAuth, pipe, call>>
    /\ timer' = FALSE

\* getToken: acquireTokenSilent resolves with a token
SilentResolves(i, token) == Step(i, "silent", afterToken(token))

\* getToken: acquireTokenSilent rejects, acquireTokenPopup is tried
SilentRejects(i) == Step(i, "silent", AtPc("popup"))

\* getToken: acquireTokenPopup resolves with a token
PopupResolves(i, token) == Step(i, "popup", afterToken(token))

\* getToken: acquireTokenPopup rejects, getToken returns null
PopupRejects(i) == Step(i, "popup", afterToken("empty"))

\* getMockSharedItems: the 500 ms timer fires
MockResolves(i) == Step(i, "mock", Resolved(Success(mockItems), FALSE))

\* lines 48-65, response being the answer to a makeGraphRequest; a 401 to
\* the first request asks for the token refresh
afterResponse(first, status) ==
    IF status = "401" /\ first
    THEN IF stored = "none" THEN Resolved(Failure(AuthExpiredMsg), TRUE)
         ELSE AtPc("refresh")
    ELSE IF status # "200"
         THEN Resolved(catchResult([isError |-> TRUE, isTypeError |-> FALSE,
                                    message |-> GraphErrorMsg(status)]),
                       TRUE)
         ELSE AtPc("json")

\* the first makeGraphRequest is answered
RequestResponds(i, status) ==
    Step(i, "request1", afterResponse(TRUE, status))

\* a makeGraphRequest rejects (network failure, timeout)
RequestRejects(i, e) ==
    /\ i \in 1..MaxLoads
    /\ loads[i].pc \in {"request1", "request2"}
    /\ Step(i, loads[i].pc, Resolved(catchResult(e), TRUE))

\* refreshToken: acquireTokenPopup resolves with a token
RefreshResolves(i, token) ==
    Step(i, "refresh",
         IF token # "empty" THEN AtPc("request2")
         ELSE Resolved(Failure(AuthExpiredMsg), TRUE))

\* refreshToken: acquireTokenPopup rejects, refreshToken returns null
RefreshRejects(i) ==
    Step(i, "refresh", Resolved(Failure(AuthExpiredMsg), TRUE))

\* the makeGraphRequest made with the refreshed token is answered
RetryResponds(i, status) ==
    Step(i, "request2", afterResponse(FALSE, status))

\* response.json() resolves; a body without value counts as no items
JsonResolves(i, hasValue, value) ==
    Step(i, "json", Resolved(Success(IF hasValue THEN value ELSE <<>>), FALSE))

\* response.json() rejects
JsonRejects(i, e) == Step(i, "json", Resolved(catchResult(e), TRUE))

(***************************************************************************)
(* The pure pipeline run stage by stage over an arbitrary item list        *)
(***************************************************************************)
pipeOff ==
    [stage |-> "off", rawItems |-> <<>>, imageItems |-> <<>>,
     sharedImages |-> <<>>, errors |-> <<>>, rawGroupings |-> <<>>,
     groupings |-> <<>>]

PresentOrNot == {Undef, <<"n">>}
NameValues == {Undef, <<>>, <<"A">>}

\* MIME types around the image/ prefix, on an otherwise valid item
MimeVariants ==
    { RawItem(<<"0">>, <<"n">>, mime, <<"A">>, <<"u">>, Undef) :
        mime \in { Undef, <<>>, <<"i", "m", "a", "g", "e">>, ImagePrefix,
                   ImagePng, <<"x">> \o ImagePng, AppPdf } }

\* every presence pattern of name and sharer fields, on an image item
SharerVariants ==
    { RawItem(<<"0">>, name, ImagePng, dn, uid, email) :
        name \in PresentOrNot, dn \in NameValues,
        uid \in PresentOrNot \cup {<<>>}, email \in PresentOrNot }

\* the account id and the email of the sharer, each absent, empty or given,
\* on an otherwise valid image item
EmailVariants ==
    { RawItem(<<"0">>, <<"n">>, ImagePng, <<"A">>, uid, email) :
        uid \in {Undef, <<>>, <<"u">>}, email \in {Undef, <<>>, <<"e">>} }

ItemUniverse == MimeVariants \cup SharerVariants \cup EmailVariants

Digits == <<"1", "2", "3", "4", "5", "6", "7", "8", "9">>

\* the item list f, the k-th item given the id k
numbered(f) ==
    [k \in DOMAIN f |-> [f[k] EXCEPT !.id = <<Digits[k]>>]]

\* filterImagesByMime(rawItems)
PFilter ==
    /\ pipe.stage = "input"
    /\ pipe' = [pipe EXCEPT !.stage = "filtered",
                            !.imageItems = filterImagesByMime(pipe.rawItems)]
    /\ UNCHANGED <<engineVars, call>>

\* the mapToSharedImage loop of processGraphItems
PMap ==
    /\ pipe.stage = "filtered"
    /\ pipe' = [pipe EXCEPT !.stage = "mapped",
                            !.sharedImages = mapAll(pipe.imageItems),
                            !.errors = mapErrors(pipe.imageItems)]
    /\ UNCHANGED <<engineVars, call>>

\* groupBySharer(sharedImages)
PGroup ==
    /\ pipe.stage = "mapped"
    /\ pipe' = [pipe EXCEPT !.stage = "grouped",
                            !.rawGroupings = groupBySharer(pipe.sharedImages)]
    /\ UNCHANGED <<engineVars, call>>

\* disambiguateDisplayNames(rawGroupings)
PDisambiguate ==
    /\ pipe.stage = "grouped"
    /\ pipe' = [pipe EXCEPT !.stage = "done",
                            !.groupings =
                                disambiguateDisplayNames(pipe.rawGroupings)]
    /\ UNCHANGED <<engineVars, call>>

\* loadData lines 133-148, the fetch having returned rawItems without an
\* error: the people and the flattened images are dispatched as SET_DATA
PDispatch ==
    /\ pipe.stage = "done"
    /\ pipe' = [pipe EXCEPT !.stage = "dispatched"]
    /\ state' = SET_DATA(state,
                         [g \in 1..Len(pipe.groupings) |->
                             pipe.groupings[g].person],
                         flatten(pipe.groupings))
    /\ UNCHANGED <<stored, session, mounted, loads, issued, hist, last,
                   everAuth, timer, call>>

(***************************************************************************)
(* Direct calls of the functions grouping.ts exports, on arguments of      *)
(* their parameter types, as tests/contract and tests/e2e make them        *)
(***************************************************************************)
callOff ==
    [fn |-> "none", stage |-> "off", input |-> <<>>, output |-> <<>>,
     again |-> <<>>]

\* thumbnails?: absent, empty, an entry without medium.url, an entry whose
\* url is the empty string, an entry with a url
ThumbVariants ==
    { [RawItem(<<"0">>, <<"n">>, ImagePng, <<"A">>, <<"u">>, Undef)
       EXCEPT !.hasThumbnails = has, !.thumbnails = thumbs] :
        has \in BOOLEAN, thumbs \in {<<>>, <<Undef>>, << <<>> >>,
                                     << <<"t">> >>} }

\* shared?.sharedDateTime absent, empty or given, webUrl absent or given
CarriedVariants ==
    { [RawItem(<<"0">>, <<"n">>, ImagePng, <<"A">>, <<"u">>, Undef)
       EXCEPT !.sharedDateTime = date, !.webUrl = url] :
        date \in {Undef, <<>>, <<"d">>}, url \in {Undef, <<"w">>} }

CallItems == ItemUniverse \cup ThumbVariants \cup CarriedVariants

\* a SharedImage
SharedImageOf(id, displayName, identifier) ==
    [id |-> id, name |-> <<"n">>, mimeType |-> ImagePng,
     sharedBy |-> [displayName |-> displayName, identifier |-> identifier],
     preview |-> [thumbnailUrl |-> Null], dateShared |-> Now,
     webUrl |-> Undef]

SharerNames == {<<"A">>, <<"a">>, <<"B">>}
SharerIdentifiers == {<<>>, <<"a">>, <<"b">>}

ImageUniverse ==
    { SharedImageOf(<<"0">>, displayName, identifier) :
        displayName \in SharerNames, identifier \in SharerIdentifiers }

\* the identifiers and display names of the groupings handed to
\* disambiguateDisplayNames; a display name may already end in a
\* parenthesised identifier
GroupIdentifiers == <<"a", "b", "c", "d", "e">>
GroupNames ==
    {<<"X">>, <<"Y">>, <<"X", " ", "(", "a", ")">>,
     <<"X", " ", "(", "b", ")">>}

\* the grouping list with identifiers ids[k] and display names names[k],
\* each grouping holding one image
groupingsOf(ids, names) ==
    [k \in DOMAIN ids |->
        [person |-> [identifier |-> <<GroupIdentifiers[ids[k]]>>,
                     displayName |-> names[k],
                     imageCount |-> 1],
         images |-> <<SharedImageOf(<<Digits[k]>>, names[k],
                                    <<GroupIdentifiers[ids[k]]>>)>>]]

Injective(f) == \A i, j \in DOMAIN f : f[i] = f[j] => i = j

\* mapToSharedImage(item)
CallMap ==
    /\ call.fn = "map"
    /\ call.stage = "input"
    /\ call' = [call EXCEPT !.stage = "done",
                            !.output = <<mapToSharedImage(call.input[1])>>]
    /\ UNCHANGED <<engineVars, pipe>>

\* groupBySharer(images)
CallGroup ==
    /\ call.fn = "group"
    /\ call.stage = "input"
    /\ call' = [call EXCEPT !.stage = "once",
                            !.output = groupBySharer(call.input)]
    /\ UNCHANGED <<engineVars, pipe>>

\* groupBySharer(images), called a second time on the same images
CallGroupAgain ==
    /\ call.fn = "group"
    /\ call.stage = "once"
    /\ call' = [call EXCEPT !.stage = "done",
                            !.again = groupBySharer(call.input)]
    /\ UNCHANGED <<engineVars, pipe>>

\* disambiguateDisplayNames(groupings)
CallDisambiguate ==
    /\ call.fn = "disambiguate"
    /\ call.stage = "input"
    /\ call' = [call EXCEPT !.stage = "once",
                            !.output = disambiguateDisplayNames(call.input)]
    /\ UNCHANGED <<engineVars, pipe>>

\* disambiguateDisplayNames applied to its own output
CallDisambiguateAgain ==
    /\ call.fn = "disambiguate"
    /\ call.stage = "once"
    /\ call' = [call EXCEPT !.stage = "done",
                            !.again = disambiguateDisplayNames(call.output)]
    /\ UNCHANGED <<engineVars, pipe>>

(***************************************************************************)
(* Specifications                                                          *)
(***************************************************************************)
StoredKinds == {"none", "noToken", "mock", "real"}
Statuses == {"200", "401", "500"}

EngineInit ==
    /\ state = initialState
    /\ stored \in StoredKinds
    /\ session = [isAuthenticated |-> FALSE, error |-> NoError]
    /\ mounted = FALSE
    /\ loads = [i \in 1..MaxLoads |-> idleLoad]
    /\ issued = 0
    /\ hist = [allImages |-> <<>>, loaded |-> FALSE]
    /\ last = [op |-> "init", failed |-> FALSE, errorSets |-> 0]
    /\ everAuth = (stored # "none")
    /\ timer = FALSE

Init == EngineInit /\ pipe = pipeOff /\ call = callOff

Next ==
    \/ Mount
    \/ AuthPoll
    \/ \E account \in StoredKinds : StorageChange(account)
    \/ HandleSignInOk
    \/ HandleSignInFails
    \/ HandleSignOut
    \/ HandleRefresh
    \/ \E k \in 1..Len(state.availablePeople) : HandlePersonClick(k)
    \/ HandleShowAllClick
    \/ \E i \in 1..MaxLoads, token \in TokenKinds : SilentResolves(i, token)
    \/ \E i \in 1..MaxLoads : SilentRejects(i)
    \/ \E i \in 1..MaxLoads, token \in TokenKinds : PopupResolves(i, token)
    \/ \E i \in 1..MaxLoads : PopupRejects(i)
    \/ \E i \in 1..MaxLoads : MockResolves(i)
    \/ \E i \in 1..MaxLoads, status \in Statuses : RequestResponds(i, status)
    \/ \E i \in 1..MaxLoads, e \in Thrown : RequestRejects(i, e)
    \/ \E i \in 1..MaxLoads, token \in TokenKinds : RefreshResolves(i, token)
    \/ \E i \in 1..MaxLoads : RefreshRejects(i)
    \/ \E i \in 1..MaxLoads, status \in Statuses : RetryResponds(i, status)
    \/ \E i \in 1..MaxLoads, value \in DataSets :
           JsonResolves(i, TRUE, value)
    \/ \E i \in 1..MaxLoads : JsonResolves(i, FALSE, <<>>)
    \/ \E i \in 1..MaxLoads, e \in Thrown : JsonRejects(i, e)

Spec == Init /\ [][Next]_vars

\* the awaits of load i that the code bounds in time: the 500 ms timer of
\* getMockSharedItems, and makeGraphRequest with AbortSignal.timeout(30000),
\* whose signal also ends the reading of the response body.  The awaits of
\* getToken and refreshToken (acquireTokenSilent, acquireTokenPopup) have
\* no timeout.
BoundedWaitEnds(i) ==
    \/ MockResolves(i)
    \/ \E status \in Statuses : RequestResponds(i, status)
    \/ \E e \in Thrown : RequestRejects(i, e)
    \/ \E status \in Statuses : RetryResponds(i, status)
    \/ \E value \in DataSets : JsonResolves(i, TRUE, value)
    \/ JsonResolves(i, FALSE, <<>>)
    \/ \E e \in Thrown : JsonRejects(i, e)

LiveSpec == Spec /\ \A i \in 1..MaxLoads : WF_vars(BoundedWaitEnds(i))

PipeInit ==
    /\ EngineInit
    /\ stored = "none"
    /\ \E n \in 0..MaxItems :
           \E f \in [1..n -> ItemUniverse] :
               pipe = [pipeOff EXCEPT !.stage = "input",
                                      !.rawItems = numbered(f)]
    /\ call = callOff

PipeNext == PFilter \/ PMap \/ PGroup \/ PDisambiguate \/ PDispatch

PipeSpec == PipeInit /\ [][PipeNext]_vars

callInput(fn, input) ==
    [callOff EXCEPT !.fn = fn, !.stage = "input", !.input = input]

CallInit ==
    /\ EngineInit
    /\ stored = "none"
    /\ pipe = pipeOff
    /\ \/ \E item \in CallItems : call = callInput("map", <<item>>)
       \/ \E n \in 0..MaxCall :
              \E f \in [1..n -> ImageUniverse] :
                  call = callInput("group", numbered(f))
       \/ \E n \in 0..MaxCall :
              \E ids \in [1..n -> 1..MaxCall], names \in [1..n -> GroupNames] :
                  /\ Injective(ids)
                  /\ call = callInput("disambiguate", groupingsOf(ids, names))

CallNext ==
    \/ CallMap
    \/ CallGroup
    \/ CallGroupAgain
    \/ CallDisambiguate
    \/ CallDisambiguateAgain

CallSpec == CallInit /\ [][CallNext]_vars

(***************************************************************************)
(* Properties                                                              *)
(***************************************************************************)
\* the images of images shared by identifier, in order
ImagesOf(images, identifier) ==
    SelectSeq(images, LAMBDA img : img.sharedBy.identifier = identifier)

InPeople(people, person) ==
    \E k \in 1..Len(people) : people[k].identifier = person.identifier

AllDone == \A i \in 1..issued : loads[i].pc = "done"

Applied == last.op \in {"applyData", "applyError"}

\* C1: after a successful load, selectPerson(p) for p in availablePeople
\* leaves displayImages equal to the loaded images shared by p, and
\* selectPerson(null) leaves it equal to all loaded images.
C1_SelectionFilter ==
    (last.op = "select" /\ hist.loaded) =>
        state.displayImages =
            IF state.selectedPerson # NullP
            THEN ImagesOf(hist.allImages, state.selectedPerson.identifier)
            ELSE hist.allImages

\* C2: when every issued load has been applied, error and availablePeople
\* are those of the load issued last, in whatever order the responses came.
C2_LastRequestWins ==
    (issued >= 2 /\ AllDone) =>
        LET result == loads[issued].result
        IN  IF TruthyMsg(result.error)
            THEN state.error = result.error
            ELSE /\ state.error = NoError
                 /\ state.availablePeople =
                        processGraphItems(result.items).allPeople

\* C3: applying a failed fetch after a successful load leaves displayImages,
\* availablePeople and selectedPerson as they were and sets error.
C3_FailedRefreshKeepsData ==
    [][ (/\ last'.op \in {"applyData", "applyError"}
         /\ last'.failed
         /\ hist.loaded)
        => /\ state'.displayImages = state.displayImages
           /\ state'.availablePeople = state.availablePeople
           /\ state'.selectedPerson = state.selectedPerson
           /\ state'.error # NoError ]_vars

\* C4: right after a load attempt whose fetch failed has been applied, error
\* is a non-empty message and isLoading is false.
C4_FailureSetsError ==
    (Applied /\ last.failed) =>
        /\ state.error # NoError
        /\ state.error # ""
        /\ ~state.isLoading

\* C5: right after the data of a successful fetch has been applied, a
\* selected person who is not among availablePeople has been replaced by
\* "show all".
C5_FallBackToShowAll ==
    (last.op = "applyData"
        /\ ~last.failed
        /\ ~InPeople(state.availablePeople, state.selectedPerson)) =>
        /\ state.selectedPerson = NullP
        /\ state.displayImages = hist.allImages

\* C6: applying loaded data that still contains the selected person keeps
\* selectedPerson and leaves displayImages equal to the newly loaded images
\* shared by that person.
C6_SelectionPreserved ==
    [][ (/\ last'.op = "applyData"
         /\ state.selectedPerson # NullP
         /\ InPeople(state'.availablePeople, state.selectedPerson))
        => /\ state'.selectedPerson = state.selectedPerson
           /\ state'.displayImages =
                  ImagesOf(hist'.allImages, state.selectedPerson.identifier)
           /\ \A k \in 1..Len(state'.availablePeople) :
                  state'.availablePeople[k].identifier =
                      state.selectedPerson.identifier
                  => Len(state'.displayImages) =
                         state'.availablePeople[k].imageCount ]_vars

C6_Witness ==
    /\ last.op = "applyData"
    /\ state.selectedPerson # NullP
    /\ InPeople(state.availablePeople, state.selectedPerson)
    /\ state.displayImages # <<>>
    /\ Len(state.displayImages) < Len(hist.allImages)

\* C7: a failed load attempt, once applied, has set error exactly once, and
\* right after a load has been applied as data error is null.
C7_ErrorOncePerFailure ==
    /\ (Applied /\ last.failed) => last.errorSets = 1
    /\ last.op = "applyData" => state.error = NoError

\* C8: as long as no account has ever been stored (the session has never
\* been authenticated), error stays null.
C8_NoLoadUnauthenticated ==
    ~everAuth => state.error = NoError

HasImagePrefix(item) ==
    /\ item.mimeType # Undef
    /\ Len(item.mimeType) >= 6
    /\ SubSeq(item.mimeType, 1, 6) = <<"i", "m", "a", "g", "e", "/">>

Filtered ==
    pipe.stage \in {"filtered", "mapped", "grouped", "done", "dispatched"}
Mapped == pipe.stage \in {"mapped", "grouped", "done", "dispatched"}

C10_MappingValidity ==
    Mapped =>
        \A k \in 1..Len(pipe.imageItems) :
            LET item == pipe.imageItems[k]
                valid == /\ Truthy(item.name)
                         /\ \/ Truthy(item.userId)
                            \/ Truthy(item.email)
                            \/ Truthy(item.displayName)
                inOutput == \E j \in 1..Len(pipe.sharedImages) :
                                pipe.sharedImages[j].id = item.id
                inErrors == \E j \in 1..Len(pipe.errors) :
                                pipe.errors[j] = item.id
            IN  /\ valid <=> inOutput
                /\ ~valid <=> inErrors

MapCalled == call.fn = "map" /\ call.stage = "done"

\* the source has no thumbnail URL: no thumbnails list, an empty list, or a
\* first entry without a URL
NoThumbnailUrl(item) ==
    \/ ~item.hasThumbnails
    \/ item.thumbnails = <<>>
    \/ item.thumbnails[1] = Undef

C12_MappedMimeIsImage ==
    (MapCalled /\ call.output[1] # NullImage) =>
        HasImagePrefix(call.output[1])

GroupCalled == call.fn = "group" /\ call.stage \in {"once", "done"}

IdentifiersOf(images) ==
    {images[k].sharedBy.identifier : k \in 1..Len(images)}

Disambiguated ==
    call.fn = "disambiguate" /\ call.stage \in {"once", "done"}

\* String.prototype.includes
Includes(s, part) ==
    \E k \in 0..Len(s) :
        /\ k + Len(part) <= Len(s)
        /\ \A i \in 1..Len(part) : s[k + i] = part[i]

\* C15: disambiguateDisplayNames applied to its own output changes nothing
\* (the input groupings having pairwise distinct identifiers).
C15_DisambiguationIdempotent ==
    (call.fn = "disambiguate" /\ call.stage = "done") =>
        call.again = call.output

\* C16: two groupings with the same displayName and distinct identifiers
\* have, after disambiguateDisplayNames, displayed names that differ and
\* that each contain the grouping's own identifier.
C16_CollidingNamesTellApart ==
    Disambiguated =>
        \A g, h \in 1..Len(call.input) :
            (/\ g # h
             /\ call.input[g].person.displayName =
                    call.input[h].person.displayName
             /\ call.input[g].person.identifier #
                    call.input[h].person.identifier)
            => /\ call.output[g].person.displayName #
                      call.output[h].person.displayName
               /\ Includes(call.output[g].person.displayName,
                           call.input[g].person.identifier)
               /\ Includes(call.output[h].person.displayName,
                           call.input[h].person.identifier)
               /\ call.output[g].person.identifier =
                      call.input[g].person.identifier

C16_Witness ==
    /\ Disambiguated
    /\ Len(call.input) = 2
    /\ call.input[1].person.displayName = <<"X">>
    /\ call.input[2].person.displayName = <<"X">>
    /\ call.output[1].person.displayName = <<"X", " ", "(", "a", ")">>
    /\ call.output[2].person.displayName = <<"X", " ", "(", "b", ")">>

\* C17: the output of disambiguateDisplayNames has pairwise distinct
\* displayed names (the input groupings having pairwise distinct
\* identifiers).
C17_DisplayedNamesDistinct ==
    Disambiguated =>
        \A g, h \in 1..Len(call.output) :
            g # h => call.output[g].person.displayName #
                         call.output[h].person.displayName

\* the grouping of out that holds image
InGrouping(out, g, image) ==
    \E j \in 1..Len(out[g].images) : out[g].images[j] = image

\* C18: images are grouped by sharedBy.identifier when it is available and
\* otherwise by sharedBy.displayName: two images with the empty identifier
\* and different display names are in different groupings, and an image
\* with the empty identifier is in a grouping under its display name.
C18_EmptyIdentifierGroupsByName ==
    GroupCalled =>
        LET images == call.input
            out == call.output
        IN  /\ \A i, k \in 1..Len(images) :
                   (/\ images[i].sharedBy.identifier = <<>>
                    /\ images[k].sharedBy.identifier = <<>>
                    /\ images[i].sharedBy.displayName #
                           images[k].sharedBy.displayName)
                   => ~\E g \in 1..Len(out) :
                          /\ InGrouping(out, g, images[i])
                          /\ InGrouping(out, g, images[k])
            /\ \A i \in 1..Len(images) :
                   images[i].sharedBy.identifier = <<>>
                   => \E g \in 1..Len(out) :
                          /\ InGrouping(out, g, images[i])
                          /\ out[g].person.displayName =
                                 images[i].sharedBy.displayName

RECURSIVE SumImageCount(_)
SumImageCount(people) ==
    IF people = <<>> THEN 0
    ELSE Head(people).imageCount + SumImageCount(Tail(people))

\* C19: processGraphItems drops each image item that fails mapping, with
\* one entry of errors for it, and processes the others: totalImages +
\* errors.length is the number of items passing the image filter and
\* totalImages the sum of imageCount over allPeople; the state's error is
\* null after the data has been dispatched.
C19_BestEffort ==
    pipe.stage = "dispatched" =>
        LET processed == processGraphItems(pipe.rawItems)
            imageItems == SelectSeq(pipe.rawItems, HasImagePrefix)
        IN  /\ processed.totalImages + Len(processed.errors)
                   = Len(imageItems)
            /\ processed.totalImages = SumImageCount(processed.allPeople)
            /\ \A k \in 1..Len(imageItems) :
                   LET id == imageItems[k].id
                       entries == {j \in 1..Len(processed.errors) :
                                      processed.errors[j] = id}
                       shown == {j \in 1..Len(state.displayImages) :
                                    state.displayImages[j].id = id}
                   IN  IF mapToSharedImage(imageItems[k]) = NullImage
                       THEN Cardinality(entries) = 1 /\ shown = {}
                       ELSE entries = {} /\ Cardinality(shown) = 1
            /\ state.availablePeople = processed.allPeople
            /\ state.error = NoError

C19_Witness ==
    /\ pipe.stage = "dispatched"
    /\ Len(pipe.rawItems) = 2
    /\ Len(pipe.errors) = 1
    /\ pipe.errors[1] = <<"1">>
    /\ Len(state.displayImages) = 1
    /\ state.displayImages[1].id = <<"2">>

\* C20: whenever the engine is loading, it eventually reaches a state with
\* isLoading false, with no assumption that the token acquisition or the
\* Data provider answers: only the waits the code bounds are taken to end.
C20_LoadLeavesLoading == state.isLoading ~> ~state.isLoading

\* C21: the step that applies the first successful load of a session's
\* engine (nobody can have been selected before it, the panel lists no one
\* until then) leaves the first person of the people list selected and the
\* gallery showing that person's images only.
C21_FirstPersonSelectedByDefault ==
    [][(/\ last'.op = "applyData"
        /\ ~last'.failed
        /\ ~hist.loaded
        /\ Len(state'.availablePeople) > 0)
       => /\ state'.selectedPerson = state'.availablePeople[1]
          /\ state'.displayImages
                 = ImagesOf(hist'.allImages,
                            state'.availablePeople[1].identifier)]_vars


\* the fields selectPerson must leave alone, between s and t
SelectionFrame(s, t) ==
    /\ t.isLoading = s.isLoading
    /\ t.error = s.error
    /\ t.availablePeople = s.availablePeople

\* C22: a selection step starts no load and changes neither isLoading nor
\* error nor availablePeople, and in every reachable state (loading or not)
\* SELECT_PERSON with any listed person or with null has the same frame.
C22_SelectPersonIsLocal ==
    [][/\ last'.op = "select"
          => /\ SelectionFrame(state, state')
             /\ loads' = loads
             /\ issued' = issued
             /\ ~state'.isLoading
       /\ \A k \in 0..Len(state.availablePeople) :
              LET person == IF k = 0 THEN NullP
                            ELSE state.availablePeople[k]
              IN  /\ SelectionFrame(state, SELECT_PERSON(state, person))
                  /\ SELECT_PERSON(state, person).selectedPerson = person]_vars

\* a person has just been selected in the ready state, with data on display
\* before the click
C22_Witness ==
    /\ last.op = "select"
    /\ state.selectedPerson # NullP
    /\ ~state.isLoading
    /\ Len(state.availablePeople) > 1
    /\ AllDone


\* the name of the k-th grouping is the name of no other grouping
UniqueName(groupings, k) ==
    \A j \in 1..Len(groupings) :
        groupings[j].person.displayName = groupings[k].person.displayName
            => j = k

\* C23: disambiguateDisplayNames returns as many groupings as it is given,
\* in the same order, each with the identifier, the imageCount and the
\* images of its input; a grouping whose name no other grouping has keeps
\* its displayName.
C23_DisambiguationFrame ==
    Disambiguated =>
        /\ Len(call.output) = Len(call.input)
        /\ \A k \in 1..Len(call.input) :
               /\ call.output[k].person.identifier
                      = call.input[k].person.identifier
               /\ call.output[k].person.imageCount
                      = call.input[k].person.imageCount
               /\ call.output[k].images = call.input[k].images
               /\ DOMAIN call.output[k] = DOMAIN call.input[k]
               /\ DOMAIN call.output[k].person = DOMAIN call.input[k].person
               /\ UniqueName(call.input, k)
                      => call.output[k].person.displayName
                             = call.input[k].person.displayName

\* three groupings, two sharing a name (renamed) and one alone (kept)
C23_Witness ==
    /\ Disambiguated
    /\ Len(call.input) = 3
    /\ \E k \in 1..3 : UniqueName(call.input, k)
    /\ \E k \in 1..3 : call.output[k].person.displayName
                           # call.input[k].person.displayName


\* a string field of a raw item that holds a value: neither missing nor empty
Present(field) == field # Undef /\ field # Null /\ field # <<>>

InFlight == \E i \in 1..issued : loads[i].pc # "done"

\* C25: isLoading is true exactly when some issued load or refresh has not
\* yet applied its result; the response of one of two overlapping loads does
\* not lower isLoading while the other is still in flight.
C25_LoadingIffInFlight == state.isLoading <=> InFlight


\* C26: once the result of the pipeline has been dispatched, availablePeople
\* is in ascending order of the displayName each entry carries (the name
\* after disambiguation), whatever the order of the raw items.
C26_PeopleSortedAsShown ==
    pipe.stage = "dispatched" =>
        \A g, h \in 1..Len(state.availablePeople) :
            g < h => localeCompare(state.availablePeople[g].displayName,
                                   state.availablePeople[h].displayName) <= 0


\* C27: the step that completes handleSignOut leaves the selection state
\* without data of the session that ended: displayImages and availablePeople
\* are empty and selectedPerson is null.
C27_SignOutClearsSelection ==
    [][last'.op = "signOut"
       => /\ state'.displayImages = <<>>
          /\ state'.availablePeople = <<>>
          /\ state'.selectedPerson = NullP]_vars


\* the session is authenticated, a load of it has succeeded, nothing is in
\* flight and the engine is not loading
ReadyAndIdle ==
    /\ mounted
    /\ session.isAuthenticated
    /\ hist.loaded
    /\ AllDone
    /\ ~state.isLoading

\* C28: with the session authenticated and no user action the engine stops
\* loading: once it is ready and idle, a step taken by the interval of
\* onAuthChange alone issues no load and leaves isLoading false.
C28_NoLoadWithoutUserAction ==
    [][(ReadyAndIdle /\ timer')
       => (issued' = issued /\ ~state'.isLoading)]_vars


\* a raw item that the pipeline keeps: an image item that maps
ValidImageItem(item) ==
    HasImagePrefix(item) /\ mapToSharedImage(item) # NullImage

\* the grouping g of groupings holds the image made from the item with id
HoldsItem(groupings, g, id) ==
    \E j \in 1..Len(groupings[g].images) : groupings[g].images[j].id = id

\* C29: two valid image items with the same sharer account id are in the
\* same grouping of the pipeline's result, whether or not each of them
\* carries the sharer's email.
C29_OneGroupingPerAccount ==
    pipe.stage = "dispatched" =>
        \A k, l \in 1..Len(pipe.rawItems) :
            (/\ ValidImageItem(pipe.rawItems[k])
             /\ ValidImageItem(pipe.rawItems[l])
             /\ Present(pipe.rawItems[k].userId)
             /\ pipe.rawItems[k].userId = pipe.rawItems[l].userId)
            => \E g \in 1..Len(pipe.groupings) :
                   /\ HoldsItem(pipe.groupings, g, pipe.rawItems[k].id)
                   /\ HoldsItem(pipe.groupings, g, pipe.rawItems[l].id)


\* the position of call i of fetchSharedItems changes in this step
Moves(i) == loads'[i].pc # loads[i].pc

\* the Graph requests and the token refresh of one call: the first request
\* is made once, the refresh only after the first request, the second
\* request only after the refresh, and the second request is followed by
\* the reading of the body or by the return
FetchStepsBounded ==
    \A i \in 1..MaxLoads :
        Moves(i) =>
            /\ loads'[i].pc = "request1"
                   => loads[i].pc \in {"idle", "silent", "popup"}
            /\ loads'[i].pc = "refresh" => loads[i].pc = "request1"
            /\ loads'[i].pc = "request2" => loads[i].pc = "refresh"
            /\ loads[i].pc = "request2" => loads'[i].pc \in {"json", "done"}
            /\ loads[i].pc = "done" => FALSE

\* a result with an error carries no items
ResultShape ==
    \A i \in 1..MaxLoads :
        TruthyMsg(loads[i].result.error) => loads[i].result.items = <<>>

\* C30: every call of fetchSharedItems that has started returns a result
\* {items, error}, after at most two Graph requests and one token refresh
\* (the second request only after a 401 and a refresh that gave a token,
\* and no retry after the second request), with no items beside an error.
C30_FetchTerminatesBounded ==
    /\ \A i \in 1..MaxLoads :
           (loads[i].pc \notin {"idle", "done"}) ~> (loads[i].pc = "done")
    /\ [][FetchStepsBounded]_vars
    /\ []ResultShape

=============================================================================
